---- MODULE Spec2Model ----
(***************************************************************************)
(* Streaming state machines of virgil-crypto-javascript.                   *)
(*                                                                         *)
(* VirgilStreamCipher is modelled from its source: the three state flags,  *)
(* the four native handles with the number of delete() calls made on each, *)
(* and one action per public method.  The native library (RecipientCipher, *)
(* Aes256Gcm, CtrDrbg, custom params) is external: a native operation that *)
(* reports a status (startEncryption, processEncryption, finishEncryption) *)
(* either returns or throws, and delete() on a handle that was already     *)
(* released either returns or throws.                                      *)
(*                                                                         *)
(* Every public call is appended to the history `calls`, with what it did  *)
(* (error raised, native operations invoked, handles deleted, phase        *)
(* afterwards), so that properties about sequences of calls are state      *)
(* predicates.                                                             *)
(*                                                                         *)
(* A behaviour exercises one subject: one of the four streaming objects,   *)
(* or the cipher's constructor, a "Safe" native wrapper, generateKeyPair,  *)
(* the decrypt-then-verify orchestrator, or a stream that is encrypted and *)
(* then decrypted.                                                         *)
(***************************************************************************)
EXTENDS Integers, Sequences, FiniteSets, TLC

\* Longest sequence of public method calls made on one object.
MaxCalls == 4

\* Longest byte sequence fed to one signer or verifier.
MaxData == 3

\* Most public keys given to the cipher's constructor.
MaxKeys == 2

\* Most arguments of a wrapped native function.
MaxArgs == 2

\* Block size of the native stream cipher: it emits whole blocks and keeps
\* the rest until the next call.
BlockSize == 2

VARIABLES
    kind,               \* which streaming object this behaviour exercises
    hasSignature,       \* cipher: a (truthy) signature was given to the constructor
    isFinished,         \* cipher flag
    isRunning,          \* cipher flag
    isDisposed,         \* cipher flag
    deleted,            \* cipher: handle -> number of delete() calls made on it
    phase,              \* decipher, signer, verifier: phase of the state machine
    released,           \* decipher, signer, verifier: releases of the native context
    hashed,             \* signer, verifier: the bytes fed by update so far
    signature,          \* verifier: the signature given to the constructor
    calls,              \* history of the public calls made so far
    ctor,               \* one run of the cipher's constructor
    wrap,               \* one call of a "Safe" wrapper of a native function
    kp,                 \* one call of generateKeyPair
    orch,               \* one call of the decrypt-then-verify orchestrator
    rt                  \* a stream encrypted by a cipher, then decrypted

cipherVars == <<hasSignature, isFinished, isRunning, isDisposed, deleted>>

machineVars == <<phase, released, hashed, signature>>

\* The one-shot operations (constructor, native wrapper, generateKeyPair,
\* orchestrator) and the encrypt-decrypt stream.
otherVars == <<ctor, wrap, kp, orch, rt>>

vars == <<kind, cipherVars, machineVars, calls, otherVars>>

Kinds == {"cipher", "decipher", "signer", "verifier"}

\* The chunks a caller passes to update, and the bytes of each.
Chunks == {1, 2, 3}

Bytes(c) == IF c = 1 THEN <<1>> ELSE IF c = 2 THEN <<2>> ELSE <<1, 2>>

ChunkArg(c) == IF c = 1 THEN "c1" ELSE IF c = 2 THEN "c2" ELSE "c12"

Keys == {"k1", "k2"}

BoolArg(b) == IF b THEN "true" ELSE "false"

(***************************************************************************)
(* VirgilStreamCipher                                                      *)
(***************************************************************************)

Handles == {"recipientCipher", "aes256Gcm", "ctrDrbg", "messageInfoCustomParams"}

\* The handles the constructor allocated: customParams() only under `if (signature)`.
Allocated ==
    IF hasSignature THEN Handles ELSE Handles \ {"messageInfoCustomParams"}

\* The order in which dispose() calls delete().
DeleteOrder ==
    IF hasSignature
    THEN <<"recipientCipher", "aes256Gcm", "ctrDrbg", "messageInfoCustomParams">>
    ELSE <<"recipientCipher", "aes256Gcm", "ctrDrbg">>

\* The phase the three flags encode.
Phase ==
    IF isDisposed THEN "Disposed"
    ELSE IF isFinished THEN "Finished"
    ELSE IF isRunning THEN "Running"
    ELSE "Created"

PhaseOf(fin, run, dis) ==
    IF dis THEN "Disposed"
    ELSE IF fin THEN "Finished"
    ELSE IF run THEN "Running"
    ELSE "Created"

\* Mutant: the isDisposed check is missing.
ensureLegalState_ignoresDisposed ==
    IF isFinished THEN "final" ELSE "ok"

\* Mutant: the isFinished check is missing.
ensureLegalState_ignoresFinished ==
    IF isDisposed THEN "dispose" ELSE "ok"

\* ensureLegalState(): "ok", or which `Illegal state` error it throws.
ensureLegalState ==
    IF isFinished THEN "final"
    ELSE IF isDisposed THEN "dispose"
    ELSE "ok"

\* Mutant: the isRunning check is missing.
ensureIsRunning_neverThrows == "ok"

\* ensureIsRunning(): "ok", or the `Illegal state ... before start` error.
ensureIsRunning ==
    IF ~isRunning THEN "start" ELSE "ok"

\* Outcomes of a native operation that reports a status.
NativeOutcomes == {"ok", "throw"}

\* packMessageInfo only serialises what startEncryption prepared: on a live
\* handle it returns; on a released handle the outcome is the native layer's.
PackOutcomes ==
    IF deleted["recipientCipher"] > 0 THEN {"ok", "throw"} ELSE {"ok"}

\* A native operation invoked on recipientCipher after its delete().
OnReleased == deleted["recipientCipher"] > 0

Flags(fin, run, dis) == [fin |-> fin, run |-> run, dis |-> dis]

\* One entry of the history: the call, the error it raised (msg: which check
\* or native operation raised it), the native operations it invoked, the
\* handles it called delete() on, and the flags when it ended.
Call(op, arg, error, msg, native, dels, rel, fl) ==
    [op |-> op, arg |-> arg, key |-> "-", error |-> error, msg |-> msg,
     native |-> native, deletes |-> dels, onReleased |-> rel,
     after |-> PhaseOf(fl.fin, fl.run, fl.dis), flags |-> fl, result |-> "-"]

Rejected(op, arg, msg) ==
    /\ calls' = Append(calls, Call(op, arg, "IllegalState", msg, <<>>, <<>>, FALSE,
                                   Flags(isFinished, isRunning, isDisposed)))
    /\ UNCHANGED <<kind, otherVars, cipherVars, machineVars>>

\* Mutant: dispose() forgets ctrDrbg.delete().
disposeBody_skipsCtrDrbg(thr) ==
    LET made == IF hasSignature
                THEN <<"recipientCipher", "aes256Gcm", "messageInfoCustomParams">>
                ELSE <<"recipientCipher", "aes256Gcm">>
        hit  == {made[i] : i \in 1..Len(made)}
    IN  [deletes  |-> made,
         threw    |-> FALSE,
         deleted  |-> [h \in Handles |-> IF h \in hit THEN deleted[h] + 1 ELSE deleted[h]],
         disposed |-> TRUE]

\* The body of dispose() when delete() on a released handle throws (thr) or
\* returns (~thr): the delete() calls made, in order, and whether it threw.
disposeBody(thr) ==
    LET order == DeleteOrder
        bad   == {i \in 1..Len(order) : deleted[order[i]] > 0}
        threw == thr /\ bad # {}
        stop  == IF threw THEN CHOOSE i \in bad : \A j \in bad : i <= j
                 ELSE Len(order)
        made  == SubSeq(order, 1, stop)
        hit   == {made[i] : i \in 1..Len(made)}
    IN  [deletes  |-> made,
         threw    |-> threw,
         deleted  |-> [h \in Handles |-> IF h \in hit THEN deleted[h] + 1 ELSE deleted[h]],
         disposed |-> IF threw THEN isDisposed ELSE TRUE]

start ==
    /\ kind = "cipher"
    /\ Len(calls) < MaxCalls
    /\ IF ensureLegalState # "ok"
       THEN Rejected("start", "-", ensureLegalState)
       ELSE \E o \in NativeOutcomes, p \in PackOutcomes :
              IF o = "throw"
              THEN /\ calls' = Append(calls, Call("start", "-", "NativeError",
                                  "startEncryption", <<"startEncryption">>, <<>>,
                                  OnReleased,
                                  Flags(isFinished, isRunning, isDisposed)))
                   /\ UNCHANGED <<kind, otherVars, cipherVars, machineVars>>
              ELSE /\ isRunning' = TRUE
                   /\ calls' = Append(calls, Call("start", "-",
                                  IF p = "throw" THEN "NativeError" ELSE "none",
                                  IF p = "throw" THEN "packMessageInfo" ELSE "-",
                                  <<"startEncryption", "packMessageInfo">>, <<>>,
                                  OnReleased, Flags(isFinished, TRUE, isDisposed)))
                   /\ UNCHANGED <<kind, otherVars, hasSignature, isFinished, isDisposed, deleted, machineVars>>

update(data) ==
    /\ kind = "cipher"
    /\ Len(calls) < MaxCalls
    /\ IF ensureLegalState # "ok"
       THEN Rejected("update", ChunkArg(data), ensureLegalState)
       ELSE IF ensureIsRunning # "ok"
       THEN Rejected("update", ChunkArg(data), ensureIsRunning)
       ELSE \E o \in NativeOutcomes :
              /\ calls' = Append(calls, Call("update", ChunkArg(data),
                             IF o = "throw" THEN "NativeError" ELSE "none",
                             IF o = "throw" THEN "processEncryption" ELSE "-",
                             <<"processEncryption">>, <<>>, OnReleased,
                             Flags(isFinished, isRunning, isDisposed)))
              /\ UNCHANGED <<kind, otherVars, cipherVars, machineVars>>

final(dispose) ==
    /\ kind = "cipher"
    /\ Len(calls) < MaxCalls
    /\ IF ensureLegalState # "ok"
       THEN Rejected("final", BoolArg(dispose), ensureLegalState)
       ELSE IF ensureIsRunning # "ok"
       THEN Rejected("final", BoolArg(dispose), ensureIsRunning)
       ELSE \E o \in NativeOutcomes, thr \in BOOLEAN :
              LET d == disposeBody(thr) IN
              /\ isFinished' = TRUE
              /\ isRunning' = FALSE
              /\ isDisposed' = IF dispose THEN d.disposed ELSE isDisposed
              /\ deleted' = IF dispose THEN d.deleted ELSE deleted
              /\ calls' = Append(calls, Call("final", BoolArg(dispose),
                             IF o = "throw" \/ (dispose /\ d.threw)
                             THEN "NativeError" ELSE "none",
                             IF dispose /\ d.threw THEN "delete"
                             ELSE IF o = "throw" THEN "finishEncryption" ELSE "-",
                             <<"finishEncryption">>,
                             IF dispose THEN d.deletes ELSE <<>>, OnReleased,
                             Flags(TRUE, FALSE,
                                   IF dispose THEN d.disposed ELSE isDisposed)))
              /\ UNCHANGED <<kind, otherVars, hasSignature, machineVars>>

dispose ==
    /\ kind = "cipher"
    /\ Len(calls) < MaxCalls
    /\ \E thr \in BOOLEAN :
         LET d == disposeBody(thr) IN
         /\ deleted' = d.deleted
         /\ isDisposed' = d.disposed
         /\ calls' = Append(calls, Call("dispose", "-",
                        IF d.threw THEN "NativeError" ELSE "none",
                        IF d.threw THEN "delete" ELSE "-",
                        <<>>, d.deletes, FALSE,
                        Flags(isFinished, isRunning, d.disposed)))
         /\ UNCHANGED <<kind, otherVars, hasSignature, isFinished, isRunning, machineVars>>

(***************************************************************************)
(* Decipher, signer and verifier.  Their classes are not among the sources *)
(* (only the verifier's tests are), so they are modelled from the          *)
(* specification: the shared phase machine of its section 3, the lifecycle *)
(* guard of 4.1 and the contracts of 4.3 - 4.5.                            *)
(***************************************************************************)

MCall(op, arg, key, error, result, after) ==
    [op |-> op, arg |-> arg, key |-> key, error |-> error, msg |-> "-",
     native |-> <<>>, deletes |-> <<>>, onReleased |-> FALSE, after |-> after,
     flags |-> Flags(FALSE, FALSE, FALSE), result |-> result]

\* A method invoked in the wrong phase: IllegalState, nothing changes.
MRejected(op, arg, key) ==
    /\ calls' = Append(calls, MCall(op, arg, key, "IllegalState", "-", phase))
    /\ UNCHANGED <<kind, otherVars, cipherVars, machineVars>>

\* An ideal signature: valid exactly for the signed bytes under the signer's key.
Valid(sig, data, publicKey) == sig.data = data /\ sig.key = publicKey

\* 4.1 dispose(): releases the native context unless it was released already,
\* sets the disposed flag; a further dispose() fails loudly.
machineDispose ==
    /\ kind \in {"decipher", "signer", "verifier"}
    /\ Len(calls) < MaxCalls
    /\ IF phase = "Disposed"
       THEN MRejected("dispose", "-", "-")
       ELSE /\ phase' = "Disposed"
            /\ released' = IF released = 0 THEN 1 ELSE released
            /\ calls' = Append(calls, MCall("dispose", "-", "-", "none", "-", "Disposed"))
            /\ UNCHANGED <<kind, otherVars, cipherVars, hashed, signature>>

\* 4.3 start(header): KeyMismatch when no recipient entry matches the key.
decipherStart(matches) ==
    /\ kind = "decipher"
    /\ Len(calls) < MaxCalls
    /\ IF phase # "Created"
       THEN MRejected("start", BoolArg(matches), "-")
       ELSE IF ~matches
       THEN /\ calls' = Append(calls, MCall("start", BoolArg(matches), "-", "KeyMismatch",
                                            "-", phase))
            /\ UNCHANGED <<kind, otherVars, cipherVars, machineVars>>
       ELSE /\ phase' = "Running"
            /\ calls' = Append(calls, MCall("start", BoolArg(matches), "-", "none", "-",
                                            "Running"))
            /\ UNCHANGED <<kind, otherVars, cipherVars, released, hashed, signature>>

decipherUpdate(data) ==
    /\ kind = "decipher"
    /\ Len(calls) < MaxCalls
    /\ IF phase # "Running"
       THEN MRejected("update", ChunkArg(data), "-")
       ELSE /\ calls' = Append(calls, MCall("update", ChunkArg(data), "-", "none", "-", phase))
            /\ UNCHANGED <<kind, otherVars, cipherVars, machineVars>>

\* 4.3 final(disposeAfter): checks the authentication tag; on failure the
\* native context is not released (section 7).
decipherFinal(tampered, disposeAfter) ==
    /\ kind = "decipher"
    /\ Len(calls) < MaxCalls
    /\ IF phase # "Running"
       THEN MRejected("final", BoolArg(disposeAfter), "-")
       ELSE IF tampered
       THEN /\ phase' = "Finished"
            /\ calls' = Append(calls, MCall("final", BoolArg(disposeAfter), "-",
                                            "AuthenticationFailed", "-", "Finished"))
            /\ UNCHANGED <<kind, otherVars, cipherVars, released, hashed, signature>>
       ELSE /\ phase' = IF disposeAfter THEN "Disposed" ELSE "Finished"
            /\ released' = IF disposeAfter THEN released + 1 ELSE released
            /\ calls' = Append(calls, MCall("final", BoolArg(disposeAfter), "-", "none", "-",
                                 IF disposeAfter THEN "Disposed" ELSE "Finished"))
            /\ UNCHANGED <<kind, otherVars, cipherVars, hashed, signature>>

\* 4.4 update(chunk): requires not yet finalized.
signerUpdate(data) ==
    /\ kind = "signer"
    /\ Len(calls) < MaxCalls
    /\ IF phase # "Running"
       THEN MRejected("update", ChunkArg(data), "-")
       ELSE /\ Len(hashed) + Len(Bytes(data)) <= MaxData
            /\ hashed' = hashed \o Bytes(data)
            /\ calls' = Append(calls, MCall("update", ChunkArg(data), "-", "none", "-", phase))
            /\ UNCHANGED <<kind, otherVars, cipherVars, phase, released, signature>>

\* Mutant: sign leaves the signer accepting updates.
signerSign_staysRunning(privateKey) ==
    /\ kind = "signer"
    /\ Len(calls) < MaxCalls
    /\ IF phase # "Running"
       THEN MRejected("sign", "-", privateKey)
       ELSE /\ released' = released + 1
            /\ signature' = [data |-> hashed, key |-> privateKey]
            /\ calls' = Append(calls, MCall("sign", "-", privateKey, "none", "-", "Running"))
            /\ UNCHANGED <<kind, otherVars, cipherVars, phase, hashed>>

\* 4.4 sign(privateKey): returns the signature, Finished, disposes the engine.
signerSign(privateKey) ==
    /\ kind = "signer"
    /\ Len(calls) < MaxCalls
    /\ IF phase # "Running"
       THEN MRejected("sign", "-", privateKey)
       ELSE /\ phase' = "Finished"
            /\ released' = released + 1
            /\ signature' = [data |-> hashed, key |-> privateKey]
            /\ calls' = Append(calls, MCall("sign", "-", privateKey, "none", "-", "Finished"))
            /\ UNCHANGED <<kind, otherVars, cipherVars, hashed>>

\* 4.5 update(chunk): valid only before verification completes.
verifierUpdate(data) ==
    /\ kind = "verifier"
    /\ Len(calls) < MaxCalls
    /\ IF phase # "Running"
       THEN MRejected("update", ChunkArg(data), "-")
       ELSE /\ Len(hashed) + Len(Bytes(data)) <= MaxData
            /\ hashed' = hashed \o Bytes(data)
            /\ calls' = Append(calls, MCall("update", ChunkArg(data), "-", "none", "-", phase))
            /\ UNCHANGED <<kind, otherVars, cipherVars, phase, released, signature>>

\* Mutant: verify never finishes the verifier.
verifyNextPhase_staysRunning(isFinal) == "Running"

\* 4.5 final = true moves to Finished, final = false stays Running.
verifyNextPhase(isFinal) == IF isFinal THEN "Finished" ELSE "Running"

\* Mutant: a signature mismatch is raised as an error.
verifyOutcome_throwsOnMismatch(publicKey) ==
    IF Valid(signature, hashed, publicKey)
    THEN [error |-> "none", result |-> "true"]
    ELSE [error |-> "VerificationFailed", result |-> "-"]

\* 4.5 the boolean is the result of verify, a mismatch is not an error.
verifyOutcome(publicKey) ==
    [error |-> "none", result |-> BoolArg(Valid(signature, hashed, publicKey))]

\* 4.5 verify(publicKey, final).
verifierVerify(publicKey, isFinal) ==
    /\ kind = "verifier"
    /\ Len(calls) < MaxCalls
    /\ IF phase # "Running"
       THEN MRejected("verify", BoolArg(isFinal), publicKey)
       ELSE /\ phase' = verifyNextPhase(isFinal)
            /\ calls' = Append(calls, MCall("verify", BoolArg(isFinal), publicKey,
                                 verifyOutcome(publicKey).error,
                                 verifyOutcome(publicKey).result,
                                 verifyNextPhase(isFinal)))
            /\ UNCHANGED <<kind, otherVars, cipherVars, released, hashed, signature>>

(***************************************************************************)
(* The constructor of VirgilStreamCipher, as one step on its inputs.       *)
(***************************************************************************)

\* The public keys given to the constructor, after toArray: each a valid
\* VirgilPublicKey or not.
KeyArrays ==
    UNION {[1..n -> {"valid", "invalid"}] : n \in 0..MaxKeys}

\* validatePublicKeysArray (./validators): rejects an empty array and an
\* array holding an invalid key object.
validatePublicKeysArray(publicKeys) ==
    /\ Len(publicKeys) > 0
    /\ \A i \in 1..Len(publicKeys) : publicKeys[i] = "valid"

NoCtor == [done |-> FALSE, error |-> "-", allocated |-> {}, deleted |-> {},
           keys |-> <<>>, sig |-> FALSE]

\* new VirgilStreamCipher(publicKey, signature): the three native objects are
\* created first, then the keys are validated, then the custom params are
\* taken when a signature was given.  Nothing in it calls delete().
construct(publicKeys, sig, setup) ==
    /\ kind = "constructor"
    /\ ~ctor.done
    /\ LET three == {"recipientCipher", "aes256Gcm", "ctrDrbg"}
           error == IF setup = "throw" THEN "NativeError"
                    ELSE IF ~validatePublicKeysArray(publicKeys)
                    THEN "ValidationError"
                    ELSE "none"
       IN  ctor' = [done |-> TRUE,
                    error |-> error,
                    allocated |-> IF error = "none" /\ sig
                                  THEN three \cup {"messageInfoCustomParams"}
                                  ELSE three,
                    deleted |-> {},
                    keys |-> publicKeys,
                    sig |-> sig]
    /\ UNCHANGED <<kind, cipherVars, machineVars, calls, wrap, kp, orch, rt>>

(***************************************************************************)
(* createNativeTypeWrapper: one call of a wrapped ("Safe") native function.*)
(* The VirgilByteArray made for argument i has id i, the native result id  *)
(* 0.                                                                      *)
(***************************************************************************)

ArgLists ==
    UNION {[1..n -> {"buffer", "other"}] : n \in 0..MaxArgs}

ArrayIds == 0..MaxArgs

NoWrap == [done |-> FALSE, browser |-> FALSE, args |-> <<>>, error |-> "-",
           created |-> {}, deletes |-> [id \in ArrayIds |-> 0]]

\* The function returned by wrapNativeFunction, called with args.
\*   failArg: the argument whose bufferToVirgilByteArray throws (0: none)
\*   fn: the native function returns a VirgilByteArray, another value, or throws
\*   back: virgilByteArrayToBuffer(result) returns or throws
wrapNativeFunction(browser, args, failArg, fn, back) ==
    /\ kind = "wrapper"
    /\ ~wrap.done
    /\ LET buffers   == {i \in 1..Len(args) : args[i] = "buffer"}
           loopThrew == failArg \in buffers
           \* the arrays the argument loop made before it ended
           fromArgs  == IF loopThrew THEN {i \in buffers : i < failArg} ELSE buffers
           \* the try block is entered only when the loop completed
           result    == IF ~loopThrew /\ fn = "byteArray" THEN {0} ELSE {}
           \* deletionQueue when the finally block runs
           queue     == IF browser THEN fromArgs \cup result ELSE {}
           error     == IF loopThrew THEN "ConversionError"
                        ELSE IF fn = "throw" THEN "NativeError"
                        ELSE IF fn = "byteArray" /\ back = "throw" THEN "ConversionError"
                        ELSE "none"
       IN  wrap' = [done |-> TRUE,
                    browser |-> browser,
                    args |-> args,
                    error |-> error,
                    created |-> fromArgs \cup result,
                    deletes |-> [id \in ArrayIds |->
                                   IF ~loopThrew /\ id \in queue THEN 1 ELSE 0]]
    /\ UNCHANGED <<kind, cipherVars, machineVars, calls, ctor, kp, orch, rt>>

(***************************************************************************)
(* generateKeyPair                                                         *)
(***************************************************************************)

NoKeyPair == [done |-> FALSE, outcome |-> "-", obtained |-> FALSE,
              deletes |-> 0, nativeFailed |-> FALSE]

\* generateKeyPair(options).
\*   type: options.type is absent, a KeyPairType, or unknown
\*   password: options.password is absent, a Buffer, or something else
\*   gen: the native generate returns a key pair or throws
\*   pub, priv: byteArrayToBuffer(virgilKeys.publicKey() / .privateKey())
\*              returns or throws
\* throwValidationError, checkIsBuffer and throwVirgilError (./utils/crypto-errors)
\* throw.
generateKeyPair(type, password, gen, pub, priv) ==
    /\ kind = "keypair"
    /\ ~kp.done
    /\ kp' =
         IF type = "unknown" \/ password = "other"
         THEN [done |-> TRUE, outcome |-> "ValidationError", obtained |-> FALSE,
               deletes |-> 0, nativeFailed |-> FALSE]
         ELSE IF gen = "throw"
         THEN [done |-> TRUE, outcome |-> "VirgilError", obtained |-> FALSE,
               deletes |-> 0, nativeFailed |-> TRUE]
         ELSE IF pub = "throw" \/ priv = "throw"
         THEN [done |-> TRUE, outcome |-> "VirgilError", obtained |-> TRUE,
               deletes |-> 0, nativeFailed |-> TRUE]
         ELSE [done |-> TRUE, outcome |-> "returned", obtained |-> TRUE,
               deletes |-> 1, nativeFailed |-> FALSE]
    /\ UNCHANGED <<kind, cipherVars, machineVars, calls, ctor, wrap, orch, rt>>

(***************************************************************************)
(* Decrypt-then-verify orchestrator (specification 4.7; its code is not    *)
(* among the sources).                                                     *)
(***************************************************************************)

NoOrch == [done |-> FALSE, tampered |-> FALSE, sigValid |-> FALSE, log |-> <<>>,
           cause |-> "-"]

\* Mutant: the embedded signature is verified before the tag is checked.
decryptThenVerify_verifiesFirst(tampered, sigValid) ==
    /\ kind = "orchestrator"
    /\ ~orch.done
    /\ orch' = [done |-> TRUE, tampered |-> tampered, sigValid |-> sigValid,
                log |-> IF sigValid THEN <<"verify", "decrypt">> ELSE <<"verify">>,
                cause |-> IF ~sigValid THEN "signature"
                          ELSE IF tampered THEN "decryption" ELSE "none"]
    /\ UNCHANGED <<kind, cipherVars, machineVars, calls, ctor, wrap, kp, rt>>

\* 4.7: decrypt fully, which checks the authentication tag; then verify the
\* embedded signature against the recovered plaintext.
\*   tampered: the ciphertext was corrupted
\*   sigValid: the embedded signature matches plaintext and sender key
decryptThenVerify(tampered, sigValid) ==
    /\ kind = "orchestrator"
    /\ ~orch.done
    /\ orch' = [done |-> TRUE, tampered |-> tampered, sigValid |-> sigValid,
                log |-> IF tampered THEN <<"decrypt">> ELSE <<"decrypt", "verify">>,
                cause |-> IF tampered THEN "decryption"
                          ELSE IF ~sigValid THEN "signature" ELSE "none"]
    /\ UNCHANGED <<kind, cipherVars, machineVars, calls, ctor, wrap, kp, rt>>

(***************************************************************************)
(* A stream through cipher and decipher.  The native AEAD is external: it  *)
(* is taken to be a stream cipher in counter mode that emits whole blocks  *)
(* and keeps the remaining bytes until the next call (the tag is left to   *)
(* decipherFinal's `tampered`).  Plain bytes are 1..2, cipher bytes 0..3.  *)
(***************************************************************************)

Keystream(n) == (n % 3) + 1

EncByte(b, n) == (b + Keystream(n)) % 4

DecByte(c, n) == (c + 4 - Keystream(n)) % 4

NoStream == [buf |-> <<>>, pos |-> 0]

\* The byte transformation of a direction ("enc" or "dec") at position n.
Transform(dir, b, n) == IF dir = "enc" THEN EncByte(b, n) ELSE DecByte(b, n)

\* One native process call: the whole blocks of buf \o data, transformed.
Process(st, data, dir) ==
    LET all == st.buf \o data
        k   == (Len(all) \div BlockSize) * BlockSize
    IN  [out |-> [i \in 1..k |-> Transform(dir, all[i], st.pos + i)],
         st  |-> [buf |-> SubSeq(all, k + 1, Len(all)), pos |-> st.pos + k]]

\* The native finish call: the bytes kept back, transformed.
Finish(st, dir) ==
    [i \in 1..Len(st.buf) |-> Transform(dir, st.buf[i], st.pos + i)]

processEncryption(st, data) == Process(st, data, "enc")

finishEncryption(st) == Finish(st, "enc")

processDecryption(st, data) == Process(st, data, "dec")

finishDecryption(st) == Finish(st, "dec")

\* Mutant: update returns the bytes it was given instead of the native output.
cipherUpdateData_returnsInput(st, data) ==
    [out |-> Bytes(data), st |-> st]

\* update(data): toBuffer(recipientCipher.processEncryption(dataToUint8Array(data))).
cipherUpdateData(st, data) == processEncryption(st, Bytes(data))

\* final(): toBuffer(recipientCipher.finishEncryption()).
cipherFinalData(st) == finishEncryption(st)

NoRoundTrip == [stage |-> "encrypting", plain |-> <<>>, enc |-> NoStream,
                wire |-> <<>>, fed |-> 0, dec |-> NoStream, out |-> <<>>,
                encCalls |-> 0, decCalls |-> 0]

\* cipher.update(data) on a started cipher.
streamUpdate(data) ==
    /\ kind = "roundtrip"
    /\ rt.stage = "encrypting"
    /\ Len(rt.plain) + Len(Bytes(data)) <= MaxData
    /\ LET r == cipherUpdateData(rt.enc, data)
       IN  rt' = [rt EXCEPT !.plain = @ \o Bytes(data), !.enc = r.st,
                            !.wire = @ \o r.out, !.encCalls = @ + 1]
    /\ UNCHANGED <<kind, cipherVars, machineVars, calls, ctor, wrap, kp, orch>>

\* cipher.final(); the ciphertext is then handed to a started decipher.
streamFinal ==
    /\ kind = "roundtrip"
    /\ rt.stage = "encrypting"
    /\ rt' = [rt EXCEPT !.stage = "decrypting", !.wire = @ \o cipherFinalData(rt.enc)]
    /\ UNCHANGED <<kind, cipherVars, machineVars, calls, ctor, wrap, kp, orch>>

\* decipher.update with the next n bytes of the ciphertext (4.3).
decipherStreamUpdate(n) ==
    /\ kind = "roundtrip"
    /\ rt.stage = "decrypting"
    /\ rt.fed + n <= Len(rt.wire)
    /\ LET r == processDecryption(rt.dec, SubSeq(rt.wire, rt.fed + 1, rt.fed + n))
       IN  rt' = [rt EXCEPT !.fed = @ + n, !.dec = r.st, !.out = @ \o r.out,
                            !.decCalls = @ + 1]
    /\ UNCHANGED <<kind, cipherVars, machineVars, calls, ctor, wrap, kp, orch>>

\* decipher.final() once the whole ciphertext was fed (4.3).
decipherStreamFinal ==
    /\ kind = "roundtrip"
    /\ rt.stage = "decrypting"
    /\ rt.fed = Len(rt.wire)
    /\ rt' = [rt EXCEPT !.stage = "done", !.out = @ \o finishDecryption(rt.dec)]
    /\ UNCHANGED <<kind, cipherVars, machineVars, calls, ctor, wrap, kp, orch>>

\* What a behaviour exercises: one streaming object or one one-shot operation.
Subjects ==
    Kinds \cup {"constructor", "wrapper", "keypair", "orchestrator", "roundtrip"}

\* The signatures a verifier is constructed with (non-empty, well-formed).
Signatures == [data : {<<1>>, <<1, 2>>}, key : {"k1"}]

NoSignature == [data |-> <<>>, key |-> "-"]

Init ==
    /\ kind \in Subjects
    /\ hasSignature \in (IF kind = "cipher" THEN BOOLEAN ELSE {FALSE})
    /\ isFinished = FALSE
    /\ isRunning = FALSE
    /\ isDisposed = FALSE
    /\ deleted = [h \in Handles |-> 0]
    /\ phase = IF kind \in {"signer", "verifier"} THEN "Running" ELSE "Created"
    /\ released = 0
    /\ hashed = <<>>
    /\ signature \in (IF kind = "verifier" THEN Signatures ELSE {NoSignature})
    /\ calls = <<>>
    /\ ctor = NoCtor
    /\ wrap = NoWrap
    /\ kp = NoKeyPair
    /\ orch = NoOrch
    /\ rt = NoRoundTrip

Next ==
    \/ start
    \/ \E data \in Chunks : update(data)
    \/ \E d \in BOOLEAN : final(d)
    \/ dispose
    \/ machineDispose
    \/ \E m \in BOOLEAN : decipherStart(m)
    \/ \E data \in Chunks : decipherUpdate(data)
    \/ \E t, d \in BOOLEAN : decipherFinal(t, d)
    \/ \E data \in Chunks : signerUpdate(data)
    \/ \E k \in Keys : signerSign(k)
    \/ \E data \in Chunks : verifierUpdate(data)
    \/ \E k \in Keys, f \in BOOLEAN : verifierVerify(k, f)
    \/ \E ks \in KeyArrays, sig \in BOOLEAN, setup \in NativeOutcomes :
         construct(ks, sig, setup)
    \/ \E b \in BOOLEAN, args \in ArgLists, failArg \in 0..MaxArgs,
          fn \in {"byteArray", "value", "throw"}, back \in NativeOutcomes :
         wrapNativeFunction(b, args, failArg, fn, back)
    \/ \E type \in {"absent", "known", "unknown"},
          password \in {"absent", "buffer", "other"},
          gen, pub, priv \in NativeOutcomes :
         generateKeyPair(type, password, gen, pub, priv)
    \/ \E t, v \in BOOLEAN : decryptThenVerify(t, v)
    \/ \E data \in Chunks : streamUpdate(data)
    \/ streamFinal
    \/ \E n \in 1..MaxData : decipherStreamUpdate(n)
    \/ decipherStreamFinal

Spec == Init /\ [][Next]_vars

(***************************************************************************)
(* Properties.  They are stated over the history of calls: what was called *)
(* before a call, not what the flags say.                                  *)
(***************************************************************************)

Idx == 1..Len(calls)

IsCipher == kind = "cipher"

\* A call that passed the state checks of its method (it may still have
\* failed in the native layer).
Accepted(i) == calls[i].error # "IllegalState"

\* Some start() returned normally before call i.
StartedBefore(i) ==
    \E j \in 1..(i - 1) : calls[j].op = "start" /\ calls[j].error = "none"

\* Some final() was accepted before call i.
FinalBefore(i) ==
    \E j \in 1..(i - 1) : calls[j].op = "final" /\ Accepted(j)

\* dispose() was called before call i.
DisposeBefore(i) ==
    \E j \in 1..(i - 1) : calls[j].op = "dispose"

\* Phase Running by the calls made: started, not finished, not disposed.
RunningBefore(i) == StartedBefore(i) /\ ~FinalBefore(i) /\ ~DisposeBefore(i)

\* No delete() was made by the calls lo..hi.
NoDeletes(lo, hi) == \A j \in lo..hi : calls[j].deletes = <<>>

\* C1: every native handle of a cipher is released (delete() called on it)
\* at most once, over every sequence of start/update/final/dispose calls.
C1_ReleasedAtMostOnce ==
    IsCipher => \A h \in Handles : deleted[h] <= 1

\* C2: a second start() on a cipher that is Running (a start() returned,
\* no final, no dispose) fails with IllegalState and does not call
\* startEncryption again.
C2_SecondStartRejected ==
    IsCipher =>
      \A i \in Idx :
        (calls[i].op = "start" /\ RunningBefore(i))
          => (calls[i].error = "IllegalState" /\ calls[i].native = <<>>)

\* C3: no native cryptographic operation of a cipher is invoked on a handle
\* after its release, and every start/update/final after dispose() fails
\* with IllegalState before touching a native handle.
C3_NoOperationAfterRelease ==
    IsCipher =>
      \A i \in Idx :
        /\ ~calls[i].onReleased
        /\ calls[i].native # <<>> => NoDeletes(1, i - 1)
        /\ (calls[i].op \in {"start", "update", "final"} /\ DisposeBefore(i))
             => (calls[i].error = "IllegalState" /\ calls[i].native = <<>>)

\* C3 witness: a start, update or final was called after dispose().
C3_Witness ==
    /\ IsCipher
    /\ \E i \in Idx :
         /\ calls[i].op \in {"update", "final"}
         /\ DisposeBefore(i)
         /\ StartedBefore(i)
         /\ calls[i].error = "IllegalState"

\* A native failure of update or final: processEncryption or
\* finishEncryption threw.
NativeFailure(i) ==
    /\ calls[i].op \in {"update", "final"}
    /\ calls[i].error = "NativeError"
    /\ calls[i].msg \in {"processEncryption", "finishEncryption"}

\* C4 as stated: when the native operation inside update() or final()
\* throws, the failing call releases no native handle.
C4_FailedCallReleasesNothing ==
    IsCipher =>
      \A i \in Idx : NativeFailure(i) => calls[i].deletes = <<>>

\* final() called with dispose = true.
DisposingFinal(i) == calls[i].op = "final" /\ calls[i].arg = "true"

\* C4 amended: a failed update(), or a failed final(false), releases no
\* handle: the handles stay allocated until dispose() or a final() with
\* dispose = true is called, and a dispose() right after the failed call
\* releases each handle exactly once.  A failed final() with dispose = true
\* releases each handle exactly once itself and leaves the cipher disposed.
C4_FailedCallAmended ==
    IsCipher =>
      \A i \in Idx :
        NativeFailure(i) =>
          IF DisposingFinal(i)
          THEN /\ calls[i].deletes = DeleteOrder
               /\ NoDeletes(1, i - 1)
               /\ calls[i].flags.dis
          ELSE /\ NoDeletes(1, i)
               /\ \A k \in (i + 1)..Len(calls) :
                    (\A j \in (i + 1)..k :
                        calls[j].op # "dispose" /\ ~DisposingFinal(j))
                      => calls[k].deletes = <<>>
               /\ (i < Len(calls) /\ calls[i + 1].op = "dispose")
                    => /\ calls[i + 1].deletes = DeleteOrder
                       /\ calls[i + 1].error = "none"
                       /\ \A h \in Allocated : deleted[h] >= 1

\* C4 witness: update() failed in processEncryption, then final() with
\* dispose = true failed in finishEncryption and released the four handles.
C4_Witness ==
    /\ IsCipher
    /\ hasSignature
    /\ \E i, j \in Idx :
         /\ i < j
         /\ NativeFailure(i) /\ calls[i].op = "update"
         /\ NativeFailure(j) /\ DisposingFinal(j)
         /\ Len(calls[j].deletes) = 4

Verified(i, isFinal) ==
    calls[i].op = "verify" /\ calls[i].error = "none" /\ calls[i].arg = isFinal

\* C7: after a verify with final = true every further verify raises
\* IllegalState; after a verify with final = false the next update or verify
\* does not raise IllegalState, whatever boolean the verify returned.
C7_VerifierReuse ==
    kind = "verifier" =>
      \A i \in Idx :
        /\ (calls[i].op = "verify" /\ \E j \in 1..(i - 1) : Verified(j, "true"))
             => calls[i].error = "IllegalState"
        /\ (i > 1 /\ Verified(i - 1, "false") /\ calls[i].op \in {"update", "verify"})
             => calls[i].error # "IllegalState"

\* C7 witness: verify(pk, false) returned false, verify(pk) then returned
\* true, and a third verify raised IllegalState.
C7_Witness ==
    /\ kind = "verifier"
    /\ \E i \in Idx :
         /\ i + 2 <= Len(calls)
         /\ Verified(i, "false") /\ calls[i].result = "false"
         /\ Verified(i + 1, "true") /\ calls[i + 1].result = "true"
         /\ calls[i + 2].op = "verify" /\ calls[i + 2].error = "IllegalState"

\* C8: on each of the four state machines an update after dispose() raises
\* IllegalState, whatever the phase at the time of dispose().
C8_UpdateAfterDispose ==
    \A i \in Idx :
      (calls[i].op = "update" /\ DisposeBefore(i)) => calls[i].error = "IllegalState"

\* C8 witness: a freshly constructed cipher was disposed, and the update
\* that followed raised IllegalState.
C8_Witness ==
    /\ IsCipher
    /\ Len(calls) >= 2
    /\ calls[1].op = "dispose"
    /\ calls[2].op = "update" /\ calls[2].error = "IllegalState"

PhaseRank(p) ==
    IF p = "Created" THEN 0
    ELSE IF p = "Running" THEN 1
    ELSE IF p = "Finished" THEN 2
    ELSE 3

\* C9: the phase never moves to an earlier phase; for the cipher isFinished
\* and isDisposed never go from true back to false and isRunning never
\* becomes true again after it has become false.
C9_PhaseMonotonic ==
    \A i, j \in Idx :
      i < j =>
        /\ PhaseRank(calls[i].after) <= PhaseRank(calls[j].after)
        /\ calls[i].flags.fin => calls[j].flags.fin
        /\ calls[i].flags.dis => calls[j].flags.dis
        /\ \A k \in Idx :
             (j < k /\ calls[i].flags.run /\ ~calls[j].flags.run)
               => ~calls[k].flags.run

\* C9 witness: a cipher went Created, Running, Finished, Disposed, and a
\* start called after that was rejected.
C9_Witness ==
    /\ IsCipher
    /\ Len(calls) = 4
    /\ calls[1].after = "Running"
    /\ calls[2].after = "Finished"
    /\ calls[3].after = "Disposed"
    /\ calls[4].op = "start" /\ calls[4].after = "Disposed"

RECURSIVE FedBefore(_)
\* The bytes the accepted update calls before call i fed to the verifier.
FedBefore(i) ==
    IF i <= 1 THEN <<>>
    ELSE LET c == calls[i - 1]
             b == IF c.op = "update" /\ c.error = "none"
                  THEN (IF c.arg = "c1" THEN <<1>>
                        ELSE IF c.arg = "c2" THEN <<2>> ELSE <<1, 2>>)
                  ELSE <<>>
         IN  FedBefore(i - 1) \o b

\* The verifier is Running before call i: no verify with final = true has
\* returned and dispose() was not called.
VerifierRunningBefore(i) ==
    /\ ~DisposeBefore(i)
    /\ ~\E j \in 1..(i - 1) : Verified(j, "true")

\* C10: verify in phase Running never raises because the signature does not
\* match the data fed so far: it returns false; the second verify after a
\* default verify raises IllegalState rather than returning false.
C10_MismatchIsFalse ==
    kind = "verifier" =>
      \A i \in Idx :
        calls[i].op = "verify" =>
          IF VerifierRunningBefore(i)
          THEN /\ calls[i].error = "none"
               /\ calls[i].result \in {"true", "false"}
               /\ (FedBefore(i) # signature.data \/ calls[i].key # signature.key)
                    => calls[i].result = "false"
          ELSE calls[i].error = "IllegalState" /\ calls[i].result = "-"

\* C10 witness: a verify over mismatching data returned false, and the
\* verify after it raised IllegalState.
C10_Witness ==
    /\ kind = "verifier"
    /\ \E i \in Idx :
         /\ i < Len(calls)
         /\ Verified(i, "true") /\ calls[i].result = "false"
         /\ FedBefore(i) # signature.data
         /\ calls[i].key = signature.key
         /\ calls[i + 1].op = "verify" /\ calls[i + 1].error = "IllegalState"

\* The handles are live before call i: no delete() was made yet.
LiveBefore(i) == NoDeletes(1, i - 1)

\* C11: dispose() on a cipher that was not disposed yet (Created, Running,
\* or Finished by final(false)) succeeds, releases every allocated handle,
\* and never invokes finishEncryption or any other native operation.
C11_EarlyDisposeSafe ==
    IsCipher =>
      \A i \in Idx :
        calls[i].op = "dispose" =>
          /\ calls[i].native = <<>>
          /\ LiveBefore(i) =>
               /\ calls[i].error = "none"
               /\ calls[i].deletes = DeleteOrder
               /\ calls[i].flags.dis
               /\ \A h \in Allocated : deleted[h] >= 1

\* C11 witness: a Running cipher was abandoned by dispose() after an update.
C11_Witness ==
    /\ IsCipher
    /\ \E i \in Idx :
         /\ calls[i].op = "dispose"
         /\ RunningBefore(i)
         /\ \E j \in 1..(i - 1) : calls[j].op = "update" /\ calls[j].error = "none"
         /\ calls[i].error = "none"

\* C15: the signer accepts update and sign from its construction on (no
\* start); sign moves it to Finished and releases its engine exactly once;
\* every later update or sign fails with IllegalState.
C15_SignerLifecycle ==
    kind = "signer" =>
      /\ released <= 1
      /\ \A i \in Idx :
           /\ (calls[i].op \in {"update", "sign"} /\ i = 1)
                => calls[i].error = "none"
           /\ (calls[i].op = "sign" /\ calls[i].error = "none")
                => /\ calls[i].after = "Finished"
                   /\ released = 1
                   /\ \A k \in (i + 1)..Len(calls) :
                        calls[k].op \in {"update", "sign"}
                          => calls[k].error = "IllegalState"

\* C15 witness: update, sign, then a rejected update and a rejected sign.
C15_Witness ==
    /\ kind = "signer"
    /\ Len(calls) = 4
    /\ calls[1].op = "update" /\ calls[1].error = "none"
    /\ calls[2].op = "sign" /\ calls[2].error = "none"
    /\ calls[3].op = "update" /\ calls[3].error = "IllegalState"
    /\ calls[4].op = "sign" /\ calls[4].error = "IllegalState"
    /\ released = 1

\* C17: isFinished and isRunning of a cipher are never both true.
C17_FinishedExcludesRunning ==
    IsCipher =>
      /\ ~(isFinished /\ isRunning)
      /\ \A i \in Idx : ~(calls[i].flags.fin /\ calls[i].flags.run)

\* C17 witness: final(false) threw in finishEncryption, and the start()
\* called after it was rejected.
C17_Witness ==
    /\ IsCipher
    /\ isFinished
    /\ \E i \in Idx :
         /\ NativeFailure(i) /\ calls[i].op = "final" /\ calls[i].arg = "false"
         /\ i < Len(calls)
         /\ calls[i + 1].op = "start" /\ calls[i + 1].error = "IllegalState"

\* C18: whenever isDisposed is true every handle the constructor allocated
\* has been released; the custom-params handle is allocated, and released,
\* exactly when a signature was given.
C18_DisposedMeansReleased ==
    IsCipher =>
      /\ isDisposed => \A h \in Allocated : deleted[h] >= 1
      /\ ~hasSignature => deleted["messageInfoCustomParams"] = 0
      /\ \A i \in Idx :
           calls[i].flags.dis =>
             \E j \in 1..i : calls[j].deletes = DeleteOrder

\* C18 witness: a cipher constructed with a signature was disposed by
\* final() and its four handles are released.
C18_Witness ==
    /\ IsCipher
    /\ hasSignature
    /\ isDisposed
    /\ \E i \in Idx : calls[i].op = "final" /\ Len(calls[i].deletes) = 4

\* C12: a construction rejected with a validation error leaves no native
\* handle allocated and unreleased (the keys are validated before any
\* native object is created).
C12_RejectedConstructionAllocatesNothing ==
    (ctor.done /\ ctor.error = "ValidationError")
      => ctor.allocated \ ctor.deleted = {}

\* C13: in the browser build every VirgilByteArray a wrapper call created
\* is deleted exactly once when the call has returned or thrown.
C13_WrapperDeletesEachArrayOnce ==
    (wrap.done /\ wrap.browser)
      => \A id \in wrap.created : wrap.deletes[id] = 1

\* C19: generateKeyPair releases the native key pair it obtained exactly
\* once on every path, and never returns normally after a native failure.
C19_KeyPairReleasedOnce ==
    kp.done =>
      /\ kp.obtained => kp.deletes = 1
      /\ kp.nativeFailed => kp.outcome = "VirgilError"

C16_EmptyReached ==
    rt.stage = "done" /\ rt.plain = <<>> /\ rt.out = <<>>

====
